---- MODULE Spec2Model ----
(***************************************************************************)
(* Model of generate_cloud_rules.py: the fetch -> extract -> write         *)
(* pipeline run by main(), with build_notes, create_rule and extract_rules *)
(* translated as operators.                                                *)
(*                                                                         *)
(* Python str values are sequences of one-character strings.  JSON scalars *)
(* carry their Python type: [type |-> "str" | "int" | "bool" | "NoneType", *)
(* val |-> ...].  A dict is a function on the set of its keys.  The        *)
(* top-level fetched value carries its type as well, because the code      *)
(* tests it with isinstance.                                               *)
(***************************************************************************)
EXTENDS Integers, Sequences, FiniteSets, TLC

VARIABLES
    ADD_PORT_RULES, \* module-level configuration flag
    feed,           \* the JSON document the metadata source serves
    pc,             \* position of main()
    endpoints,      \* local of main / extract_rules
    si,             \* index of the next service in extract_rules' outer loop
    rules,          \* the list extract_rules builds and returns
    origin,         \* history: for each rule, the target it was derived from
    log,            \* records emitted through logging, in order
    raised,         \* exception in flight ("None" when there is none)
    caught,         \* exception handled by main's except clause
    stages,         \* history: the stages main has left, with their outcome
    file            \* the output file of this run

vars == <<ADD_PORT_RULES, feed, pc, endpoints, si, rules, origin, log,
          raised, caught, stages, file>>

(***************************************************************************)
(* Bounds                                                                  *)
(***************************************************************************)
MaxTargets == 2   \* URL and IP targets in a payload, all records together

(***************************************************************************)
(* Python values                                                           *)
(***************************************************************************)
StrV(s)  == [type |-> "str",  val |-> s]
IntV(n)  == [type |-> "int",  val |-> n]
BoolV(b) == [type |-> "bool", val |-> b]
NoneV    == [type |-> "NoneType", val |-> 0]

\* bool(v)
Truthy(v) ==
    CASE v.type = "str"  -> Len(v.val) > 0
      [] v.type = "int"  -> v.val # 0
      [] v.type = "bool" -> v.val
      [] OTHER           -> FALSE

Digit(d) == <<"0", "1", "2", "3", "4", "5", "6", "7", "8", "9">>[d + 1]

RECURSIVE IntStr(_)
IntStr(n) == IF n < 10 THEN <<Digit(n)>> ELSE IntStr(n \div 10) \o <<Digit(n % 10)>>

\* format(v, "") as used by an f-string replacement field
PyStr(v) ==
    CASE v.type = "str"  -> v.val
      [] v.type = "int"  -> IntStr(v.val)
      [] v.type = "bool" -> IF v.val THEN <<"T", "r", "u", "e">>
                                     ELSE <<"F", "a", "l", "s", "e">>
      [] OTHER           -> <<"N", "o", "n", "e">>

Whitespace == {" ", "\t", "\n", "\r"}

RECURSIVE LStrip(_)
LStrip(s) == IF s # <<>> /\ Head(s) \in Whitespace THEN LStrip(Tail(s)) ELSE s

RECURSIVE RStrip(_)
RStrip(s) ==
    IF s # <<>> /\ s[Len(s)] \in Whitespace THEN RStrip(SubSeq(s, 1, Len(s) - 1)) ELSE s

\* str.strip()
Strip(s) == RStrip(LStrip(s))

\* str.count(c) for a one-character c
RECURSIVE Count(_, _)
Count(s, c) ==
    IF s = <<>> THEN 0 ELSE (IF Head(s) = c THEN 1 ELSE 0) + Count(Tail(s), c)

\* c in s
Contains(s, c) == \E i \in 1..Len(s) : s[i] = c

\* s.startswith(p)
StartsWith(s, p) == Len(s) >= Len(p) /\ SubSeq(s, 1, Len(p)) = p

\* sep.join(parts)
RECURSIVE Join(_, _)
Join(sep, parts) ==
    IF parts = <<>> THEN <<>>
    ELSE IF Len(parts) = 1 THEN parts[1]
    ELSE parts[1] \o sep \o Join(sep, Tail(parts))

\* dict.get(key, default)
Get(d, key, default) == IF key \in DOMAIN d THEN d[key] ELSE default

RECURSIVE Flatten(_)
Flatten(ss) == IF ss = <<>> THEN <<>> ELSE Head(ss) \o Flatten(Tail(ss))

(***************************************************************************)
(* build_notes                                                             *)
(***************************************************************************)
\* the literal text of each f-string in notes_parts, up to the value
Label ==
    [id |->
        <<"i", "d", ":", " ">>,
     serviceArea |->
        <<"s", "e", "r", "v", "i", "c", "e", "A", "r", "e", "a", ":", " ">>,
     serviceAreaDisplayName |->
        <<"s", "e", "r", "v", "i", "c", "e", "A", "r", "e", "a", "D", "i", "s", "p", "l", "a", "y", "N", "a", "m", "e", ":", " ">>,
     tcpPorts |->
        <<"t", "c", "p", "P", "o", "r", "t", "s", ":", " ">>,
     udpPorts |->
        <<"u", "d", "p", "P", "o", "r", "t", "s", ":", " ">>,
     category |->
        <<"c", "a", "t", "e", "g", "o", "r", "y", ":", " ">>,
     expressRoute |->
        <<"e", "x", "p", "r", "e", "s", "s", "R", "o", "u", "t", "e", ":", " ">>,
     required |->
        <<"r", "e", "q", "u", "i", "r", "e", "d", ":", " ">>,
     notes |->
        <<"n", "o", "t", "e", "s", ":", " ">>]

\* f"k: {service[k]}" if k in service else None
IfPresent(service, k) ==
    IF k \in DOMAIN service THEN StrV(Label[k] \o PyStr(service[k])) ELSE NoneV

\* f"k: {service[k]}" if k in service and service[k] else None
IfPresentAndTruthy(service, k) ==
    IF k \in DOMAIN service /\ Truthy(service[k])
    THEN StrV(Label[k] \o PyStr(service[k])) ELSE NoneV

\* variant: the notes field is rendered whenever it is present
notes_parts_notes_if_present(service) ==
    << IfPresent(service, "id"),
       IfPresent(service, "serviceArea"),
       IfPresent(service, "serviceAreaDisplayName"),
       IfPresentAndTruthy(service, "tcpPorts"),
       IfPresentAndTruthy(service, "udpPorts"),
       IfPresent(service, "category"),
       IfPresent(service, "expressRoute"),
       IfPresent(service, "required"),
       IfPresent(service, "notes") >>

notes_parts(service) ==
    << IfPresent(service, "id"),
       IfPresent(service, "serviceArea"),
       IfPresent(service, "serviceAreaDisplayName"),
       IfPresentAndTruthy(service, "tcpPorts"),
       IfPresentAndTruthy(service, "udpPorts"),
       IfPresent(service, "category"),
       IfPresent(service, "expressRoute"),
       IfPresent(service, "required"),
       IfPresentAndTruthy(service, "notes") >>

\* filter(None, parts), as the list of the str values kept
RECURSIVE FilterNone(_)
FilterNone(parts) ==
    IF parts = <<>> THEN <<>>
    ELSE (IF Truthy(Head(parts)) THEN <<Head(parts).val>> ELSE <<>>)
         \o FilterNone(Tail(parts))

build_notes(service) == Join(<<"\n">>, FilterNone(notes_parts(service)))

(***************************************************************************)
(* create_rule                                                             *)
(***************************************************************************)
ALLOW == <<"a", "l", "l", "o", "w">>
ANY   == <<"A", "N", "Y">>
TCP   == <<"t", "c", "p">>
UDP   == <<"u", "d", "p">>

create_rule(service, key, value, notes, protocol, ports) ==
    LET rule == ("action" :> ALLOW) @@ ("process" :> ANY)
                @@ (key :> value) @@ ("notes" :> notes)
    IN  IF Truthy(protocol) /\ Truthy(ports)
        THEN ("protocol" :> protocol.val) @@ ("ports" :> Strip(ports.val)) @@ rule
        ELSE rule

(***************************************************************************)
(* extract_rules: the body of the loop over the services                   *)
(***************************************************************************)
\* variant: the rule without protocol is emitted when the port keys are
\* missing, instead of when their values are false
url_port_rules_presence(service, key, value, notes) ==
    IF ADD_PORT_RULES
    THEN (IF Truthy(Get(service, "tcpPorts", NoneV))
          THEN <<create_rule(service, key, value, notes, StrV(TCP), service["tcpPorts"])>>
          ELSE <<>>)
         \o
         (IF Truthy(Get(service, "udpPorts", NoneV))
          THEN <<create_rule(service, key, value, notes, StrV(UDP), service["udpPorts"])>>
          ELSE <<>>)
         \o
         (IF "tcpPorts" \notin DOMAIN service /\ "udpPorts" \notin DOMAIN service
          THEN <<create_rule(service, key, value, notes, NoneV, NoneV)>>
          ELSE <<>>)
    ELSE <<create_rule(service, key, value, notes, NoneV, NoneV)>>

\* the port expansion of one URL target
url_port_rules(service, key, value, notes) ==
    IF ADD_PORT_RULES
    THEN (IF Truthy(Get(service, "tcpPorts", NoneV))
          THEN <<create_rule(service, key, value, notes, StrV(TCP), service["tcpPorts"])>>
          ELSE <<>>)
         \o
         (IF Truthy(Get(service, "udpPorts", NoneV))
          THEN <<create_rule(service, key, value, notes, StrV(UDP), service["udpPorts"])>>
          ELSE <<>>)
         \o
         (IF ~Truthy(Get(service, "tcpPorts", NoneV)) /\ ~Truthy(Get(service, "udpPorts", NoneV))
          THEN <<create_rule(service, key, value, notes, NoneV, NoneV)>>
          ELSE <<>>)
    ELSE <<create_rule(service, key, value, notes, NoneV, NoneV)>>

\* TRUE when the URL loop reaches its continue statement
url_skipped(url) ==
    Contains(url, "*") /\ ~(StartsWith(url, <<"*", ".">>) /\ Count(url, "*") = 1)

\* variant: the number of "*" is not checked
url_rules_no_count(service, url, notes) ==
    IF Contains(url, "*")
    THEN IF StartsWith(url, <<"*", ".">>)
         THEN url_port_rules(service, "remote-domains", <<SubSeq(url, 3, Len(url))>>, notes)
         ELSE <<>>
    ELSE url_port_rules(service, "remote-hosts", <<url>>, notes)

\* variant: only the "*" is removed, url[1:]
url_rules_keep_dot(service, url, notes) ==
    IF Contains(url, "*")
    THEN IF StartsWith(url, <<"*", ".">>) /\ Count(url, "*") = 1
         THEN url_port_rules(service, "remote-domains", <<SubSeq(url, 2, Len(url))>>, notes)
         ELSE <<>>
    ELSE url_port_rules(service, "remote-hosts", <<url>>, notes)

\* variant: the two selector keys are exchanged
url_rules_swapped_keys(service, url, notes) ==
    IF Contains(url, "*")
    THEN IF StartsWith(url, <<"*", ".">>) /\ Count(url, "*") = 1
         THEN url_port_rules(service, "remote-hosts", <<SubSeq(url, 3, Len(url))>>, notes)
         ELSE <<>>
    ELSE url_port_rules(service, "remote-domains", <<url>>, notes)

\* one iteration of the loop over service["urls"]: the rules it appends
url_rules(service, url, notes) ==
    IF Contains(url, "*")
    THEN IF StartsWith(url, <<"*", ".">>) /\ Count(url, "*") = 1
         THEN url_port_rules(service, "remote-domains", <<SubSeq(url, 3, Len(url))>>, notes)
         ELSE <<>>
    ELSE url_port_rules(service, "remote-hosts", <<url>>, notes)

\* variant: the UDP test is an elif of the TCP test
ip_rules_elif(service, ip, notes) ==
    IF ADD_PORT_RULES
    THEN IF Truthy(Get(service, "tcpPorts", NoneV))
         THEN <<create_rule(service, "remote-addresses", <<ip>>, notes, StrV(TCP), service["tcpPorts"])>>
         ELSE IF Truthy(Get(service, "udpPorts", NoneV))
         THEN <<create_rule(service, "remote-addresses", <<ip>>, notes, StrV(UDP), service["udpPorts"])>>
         ELSE <<create_rule(service, "remote-addresses", <<ip>>, notes, NoneV, NoneV)>>
    ELSE <<create_rule(service, "remote-addresses", <<ip>>, notes, NoneV, NoneV)>>

\* one iteration of the loop over service["ips"]: the rules it appends
ip_rules(service, ip, notes) ==
    IF ADD_PORT_RULES
    THEN (IF Truthy(Get(service, "tcpPorts", NoneV))
          THEN <<create_rule(service, "remote-addresses", <<ip>>, notes, StrV(TCP), service["tcpPorts"])>>
          ELSE <<>>)
         \o
         (IF Truthy(Get(service, "udpPorts", NoneV))
          THEN <<create_rule(service, "remote-addresses", <<ip>>, notes, StrV(UDP), service["udpPorts"])>>
          ELSE <<>>)
         \o
         (IF ~Truthy(Get(service, "tcpPorts", NoneV)) /\ ~Truthy(Get(service, "udpPorts", NoneV))
          THEN <<create_rule(service, "remote-addresses", <<ip>>, notes, NoneV, NoneV)>>
          ELSE <<>>)
    ELSE <<create_rule(service, "remote-addresses", <<ip>>, notes, NoneV, NoneV)>>

\* a list of n copies of x
Repeat(x, n) == [j \in 1..n |-> x]

Target(s, l, i) == [service |-> s, list |-> l, index |-> i]

Entry(level, msg) == [level |-> level, msg |-> msg]

(***************************************************************************)
(* The documents the metadata source may serve                             *)
(***************************************************************************)
URLS == { <<"a">>, <<"*", ".", "a">>, <<"*", ".", "*">>, <<"a", "*">> }
IPS  == { <<"1">> }
TcpPortSpecs == { StrV(<<>>), StrV(<<" ", "8", " ", "9", " ">>) }
UdpPortSpecs == { StrV(<<"5">>) }

SeqsOver(S, n) == [1..n -> S]

Opt(k, vals) == {<<>>} \cup {k :> v : v \in vals}

\* the urls and ips entries of a service with n targets
TargetLists(n) ==
    UNION { { (IF k = 0 THEN <<>> ELSE "urls" :> u) @@ (IF k = n THEN <<>> ELSE "ips" :> i) :
                u \in SeqsOver(URLS, k), i \in SeqsOver(IPS, n - k) } : k \in 0..n }

\* the services with n targets
ServiceSet(n) ==
    { tl @@ ("tcpPorts" :> t) @@ u : tl \in TargetLists(n),
                                     t \in TcpPortSpecs,
                                     u \in Opt("udpPorts", UdpPortSpecs) }

\* the lists of services, each with a target, with at most t targets in all
RECURSIVE ServiceLists(_)
ServiceLists(t) ==
    {<<>>} \cup
    UNION { { <<s>> \o rest : s \in ServiceSet(n), rest \in ServiceLists(t - n) } :
            n \in 1..t }

ListV(l) == [type |-> "list", val |-> l]
DictV(d) == [type |-> "dict", val |-> d]

Payloads ==
    LET lists == ServiceLists(MaxTargets)
    IN  {ListV(l) : l \in lists}
        \cup {DictV("values" :> l) : l \in lists}
        \cup {DictV(<<>>), NoneV}

(***************************************************************************)
(* main                                                                    *)
(***************************************************************************)
Init ==
    /\ ADD_PORT_RULES \in BOOLEAN
    /\ feed \in Payloads
    /\ pc = "fetch"
    /\ endpoints = NoneV
    /\ si = 0
    /\ rules = <<>>
    /\ origin = <<>>
    /\ log = <<>>
    /\ raised = "None"
    /\ caught = "None"
    /\ stages = <<>>
    /\ file = [state |-> "absent"]

\* fetch_microsoft_endpoints returns the parsed document
FetchOk ==
    /\ pc = "fetch"
    /\ endpoints' = feed
    /\ log' = log \o <<Entry("INFO", "Sending request to Microsoft API..."),
                       Entry("INFO", "Successfully fetched Microsoft endpoint data.")>>
    /\ stages' = Append(stages, <<"fetch", "ok">>)
    /\ pc' = "extract"
    /\ UNCHANGED <<ADD_PORT_RULES, feed, si, rules, origin, raised, caught, file>>

\* requests.get or raise_for_status raises
FetchRequestFailed ==
    /\ pc = "fetch"
    /\ log' = log \o <<Entry("INFO", "Sending request to Microsoft API..."),
                       Entry("ERROR", "Request to Microsoft API failed.")>>
    /\ raised' = "RequestException"
    /\ stages' = Append(stages, <<"fetch", "failed">>)
    /\ pc' = "except"
    /\ UNCHANGED <<ADD_PORT_RULES, feed, endpoints, si, rules, origin, caught, file>>

\* response.json() raises
FetchInvalidJson ==
    /\ pc = "fetch"
    /\ log' = log \o <<Entry("INFO", "Sending request to Microsoft API..."),
                       Entry("ERROR", "Response content is not valid JSON.")>>
    /\ raised' = "ValueError"
    /\ stages' = Append(stages, <<"fetch", "failed">>)
    /\ pc' = "except"
    /\ UNCHANGED <<ADD_PORT_RULES, feed, endpoints, si, rules, origin, caught, file>>

\* extract_rules up to its loop, when endpoints is a list or has a get method
ExtractBegin ==
    /\ pc = "extract"
    /\ endpoints.type \in {"list", "dict"}
    /\ IF endpoints.type = "list"
       THEN /\ endpoints' = endpoints
            /\ log' = Append(log, Entry("INFO", "Extracting rules from endpoint data..."))
       ELSE /\ endpoints' = ListV(Get(endpoints.val, "values", <<>>))
            /\ log' = log \o <<Entry("INFO", "Extracting rules from endpoint data..."),
                               Entry("WARNING", "Endpoint data is not a list.")>>
    /\ rules' = <<>>
    /\ origin' = <<>>
    /\ si' = 1
    /\ pc' = "loop"
    /\ UNCHANGED <<ADD_PORT_RULES, feed, raised, caught, stages, file>>

\* variant: the error is swallowed and main goes on to write
ExtractBeginRaise_swallowed ==
    /\ pc = "extract"
    /\ endpoints.type \notin {"list", "dict"}
    /\ log' = log \o <<Entry("INFO", "Extracting rules from endpoint data..."),
                       Entry("WARNING", "Endpoint data is not a list.")>>
    /\ stages' = Append(stages, <<"extract", "failed">>)
    /\ pc' = "write"
    /\ UNCHANGED <<ADD_PORT_RULES, feed, endpoints, si, rules, origin, raised, caught, file>>

\* extract_rules when endpoints is neither a list nor an object with get
ExtractBeginRaise ==
    /\ pc = "extract"
    /\ endpoints.type \notin {"list", "dict"}
    /\ log' = log \o <<Entry("INFO", "Extracting rules from endpoint data..."),
                       Entry("WARNING", "Endpoint data is not a list.")>>
    /\ raised' = "AttributeError"
    /\ stages' = Append(stages, <<"extract", "failed">>)
    /\ pc' = "except"
    /\ UNCHANGED <<ADD_PORT_RULES, feed, endpoints, si, rules, origin, caught, file>>

\* variant: the loop over the IPs runs before the loop over the URLs
ForService_ips_first ==
    /\ pc = "loop"
    /\ si <= Len(endpoints.val)
    /\ LET service == endpoints.val[si]
           notes   == build_notes(service)
           urls    == Get(service, "urls", <<>>)
           ips     == Get(service, "ips", <<>>)
           fromUrl == [i \in 1..Len(urls) |-> url_rules(service, urls[i], notes)]
           fromIp  == [i \in 1..Len(ips) |-> ip_rules(service, ips[i], notes)]
           warned  == [i \in 1..Len(urls) |->
                         IF url_skipped(urls[i])
                         THEN <<Entry("WARNING", "Non-standard wildcard domain encountered")>>
                         ELSE <<>>]
       IN  /\ rules' = rules \o Flatten(fromIp) \o Flatten(fromUrl)
           /\ origin' = origin
                  \o Flatten([i \in 1..Len(ips) |->
                                Repeat(Target(si, "ips", i), Len(fromIp[i]))])
                  \o Flatten([i \in 1..Len(urls) |->
                                Repeat(Target(si, "urls", i), Len(fromUrl[i]))])
           /\ log' = log \o Flatten(warned)
    /\ si' = si + 1
    /\ UNCHANGED <<ADD_PORT_RULES, feed, pc, endpoints, raised, caught, stages, file>>

\* one iteration of "for service in endpoints"
ForService ==
    /\ pc = "loop"
    /\ si <= Len(endpoints.val)
    /\ LET service == endpoints.val[si]
           notes   == build_notes(service)
           urls    == Get(service, "urls", <<>>)
           ips     == Get(service, "ips", <<>>)
           fromUrl == [i \in 1..Len(urls) |-> url_rules(service, urls[i], notes)]
           fromIp  == [i \in 1..Len(ips) |-> ip_rules(service, ips[i], notes)]
           warned  == [i \in 1..Len(urls) |->
                         IF url_skipped(urls[i])
                         THEN <<Entry("WARNING", "Non-standard wildcard domain encountered")>>
                         ELSE <<>>]
       IN  /\ rules' = rules \o Flatten(fromUrl) \o Flatten(fromIp)
           /\ origin' = origin
                  \o Flatten([i \in 1..Len(urls) |->
                                Repeat(Target(si, "urls", i), Len(fromUrl[i]))])
                  \o Flatten([i \in 1..Len(ips) |->
                                Repeat(Target(si, "ips", i), Len(fromIp[i]))])
           /\ log' = log \o Flatten(warned)
    /\ si' = si + 1
    /\ UNCHANGED <<ADD_PORT_RULES, feed, pc, endpoints, raised, caught, stages, file>>

\* the loop is exhausted: extract_rules returns
ExtractReturn ==
    /\ pc = "loop"
    /\ si > Len(endpoints.val)
    /\ log' = Append(log, Entry("INFO", "Rules extraction complete."))
    /\ stages' = Append(stages, <<"extract", "ok">>)
    /\ pc' = "write"
    /\ UNCHANGED <<ADD_PORT_RULES, feed, endpoints, si, rules, origin, raised, caught, file>>

subscription(rs) ==
    [name |-> "Microsoft Cloud Access",
     description |-> "Allows outbound traffic to Microsoft Cloud services.",
     author |-> "Automated Script",
     rules |-> rs]

\* generate_ov_file writes the file; main logs its last message
WriteOk ==
    /\ pc = "write"
    /\ file' = [state |-> "complete", content |-> subscription(rules)]
    /\ log' = log \o <<Entry("INFO", "Generating .lsrules rule file for microsoft..."),
                       Entry("INFO", "Little Snitch rule file generated"),
                       Entry("INFO", "Done!")>>
    /\ stages' = Append(stages, <<"write", "ok">>)
    /\ pc' = "done"
    /\ UNCHANGED <<ADD_PORT_RULES, feed, endpoints, si, rules, origin, raised, caught>>

\* open or json.dump raises IOError; what was written before stays on disk
WriteFailed ==
    /\ pc = "write"
    /\ \E left \in {"absent", "partial"} : file' = [state |-> left]
    /\ log' = log \o <<Entry("INFO", "Generating .lsrules rule file for microsoft..."),
                       Entry("ERROR", "Failed to write the rule file for microsoft.")>>
    /\ raised' = "IOError"
    /\ stages' = Append(stages, <<"write", "failed">>)
    /\ pc' = "except"
    /\ UNCHANGED <<ADD_PORT_RULES, feed, endpoints, si, rules, origin, caught>>

\* main's "except Exception" clause
MainExcept ==
    /\ pc = "except"
    /\ raised # "None"
    /\ log' = Append(log, Entry("ERROR", "An error occurred"))
    /\ caught' = raised
    /\ raised' = "None"
    /\ pc' = "done"
    /\ UNCHANGED <<ADD_PORT_RULES, feed, endpoints, si, rules, origin, stages, file>>

(***************************************************************************)
(* A second set of documents: one record with one URL target and every     *)
(* combination of the metadata fields build_notes reads                    *)
(***************************************************************************)
NotesServices ==
    { ("urls" :> <<<<"a">>>>) @@ i @@ a @@ d @@ t @@ u @@ c @@ e @@ r @@ n :
        i \in Opt("id", {IntV(0), IntV(12)}),
        a \in Opt("serviceArea", {StrV(<<>>), StrV(<<"E">>)}),
        d \in Opt("serviceAreaDisplayName", {StrV(<<"E", "X">>)}),
        t \in Opt("tcpPorts", TcpPortSpecs),
        u \in Opt("udpPorts", {StrV(<<>>)} \cup UdpPortSpecs),
        c \in Opt("category", {StrV(<<"A">>)}),
        e \in Opt("expressRoute", {BoolV(TRUE)}),
        r \in Opt("required", {BoolV(FALSE), BoolV(TRUE)}),
        n \in Opt("notes", {StrV(<<>>), StrV(<<"n">>)}) }

NotesPayloads == {ListV(<<s>>) : s \in NotesServices} \cup {NoneV}

InitNotes ==
    /\ ADD_PORT_RULES \in BOOLEAN
    /\ feed \in NotesPayloads
    /\ pc = "fetch"
    /\ endpoints = NoneV
    /\ si = 0
    /\ rules = <<>>
    /\ origin = <<>>
    /\ log = <<>>
    /\ raised = "None"
    /\ caught = "None"
    /\ stages = <<>>
    /\ file = [state |-> "absent"]

Next ==
    \/ FetchOk
    \/ FetchRequestFailed
    \/ FetchInvalidJson
    \/ ExtractBegin
    \/ ExtractBeginRaise
    \/ ForService
    \/ ExtractReturn
    \/ WriteOk
    \/ WriteFailed
    \/ MainExcept

Spec == Init /\ [][Next]_vars

SpecNotes == InitNotes /\ [][Next]_vars

(***************************************************************************)
(* Vocabulary of the properties                                            *)
(***************************************************************************)
ExtractionDone == Len(stages) >= 2 /\ stages[2] = <<"extract", "ok">>

Records == endpoints.val

UrlsOf(s) == Get(Records[s], "urls", <<>>)
IpsOf(s)  == Get(Records[s], "ips", <<>>)

AllTargets ==
    {Target(s, "urls", i) : s \in 1..Len(Records), i \in 1..MaxTargets + 1}
    \cup {Target(s, "ips", i) : s \in 1..Len(Records), i \in 1..MaxTargets + 1}

Exists(t) ==
    t.index <= (IF t.list = "urls" THEN Len(UrlsOf(t.service)) ELSE Len(IpsOf(t.service)))

Targets == {t \in AllTargets : Exists(t)}

TextOf(t) ==
    IF t.list = "urls" THEN UrlsOf(t.service)[t.index] ELSE IpsOf(t.service)[t.index]

RulesFrom(t) == {k \in 1..Len(rules) : origin[k] = t}

SelectorKeys == {"remote-domains", "remote-hosts", "remote-addresses"}

Stars(u) == {i \in 1..Len(u) : u[i] = "*"}

\* exactly one "*", in a leading "*."
SuffixWildcard(u) == Stars(u) = {1} /\ Len(u) >= 2 /\ u[2] = "."

\* a "*" anywhere else
OtherWildcard(u) == Stars(u) # {} /\ ~SuffixWildcard(u)

Rejected(t) == t.list = "urls" /\ OtherWildcard(TextOf(t))

\* t2 is processed after t1
Later(t1, t2) ==
    \/ t1.service < t2.service
    \/ /\ t1.service = t2.service
       /\ \/ t1.list = "urls" /\ t2.list = "ips"
          \/ t1.list = t2.list /\ t1.index < t2.index

Declares(service, k) == k \in DOMAIN service /\ Truthy(service[k])

\* C1: a URL target with a "*" anywhere but in a single leading "*." yields
\* no rule, and every later target that is not such a URL still yields one.
C1_RejectedWildcardSkipped ==
    ExtractionDone =>
        \A t \in Targets :
            Rejected(t) =>
                /\ RulesFrom(t) = {}
                /\ \A k \in 1..Len(rules) : \A sel \in DOMAIN rules[k] \cap SelectorKeys :
                       rules[k][sel] # <<TextOf(t)>>
                /\ \A t2 \in Targets :
                       (Later(t, t2) /\ ~Rejected(t2)) => RulesFrom(t2) # {}

C1_Witness ==
    /\ ExtractionDone
    /\ \E t, t2 \in Targets :
          /\ Rejected(t)
          /\ RulesFrom(t) = {}
          /\ t2.service = t.service /\ t2.list = "urls" /\ Later(t, t2)
          /\ RulesFrom(t2) # {}

\* C2: every rule derived from a URL target "*.<suffix>" with exactly one "*"
\* selects by remote-domains, and its value is <suffix>.
C2_SuffixWildcardRule ==
    ExtractionDone =>
        \A t \in Targets :
            (t.list = "urls" /\ SuffixWildcard(TextOf(t))) =>
                \A k \in RulesFrom(t) :
                    /\ DOMAIN rules[k] \cap SelectorKeys = {"remote-domains"}
                    /\ <<"*", ".">> \o rules[k]["remote-domains"][1] = TextOf(t)
                    /\ Len(rules[k]["remote-domains"]) = 1

C2_Witness ==
    /\ ExtractionDone
    /\ \E t \in Targets :
          /\ t.list = "urls" /\ SuffixWildcard(TextOf(t))
          /\ RulesFrom(t) # {}

\* C3: a URL target without "*" becomes an exact-host rule (remote-hosts)
\* whose value is the target itself.
C3_ExactHostRule ==
    ExtractionDone =>
        \A t \in Targets :
            (t.list = "urls" /\ Stars(TextOf(t)) = {}) =>
                /\ RulesFrom(t) # {}
                /\ \A k \in RulesFrom(t) :
                       /\ DOMAIN rules[k] \cap SelectorKeys = {"remote-hosts"}
                       /\ rules[k]["remote-hosts"] = <<TextOf(t)>>

C3_Witness ==
    /\ ExtractionDone
    /\ \E t \in Targets :
          /\ t.list = "urls" /\ Stars(TextOf(t)) = {}
          /\ \E k \in RulesFrom(t) : "remote-hosts" \in DOMAIN rules[k]

\* the target a rule's selector value was built from
DerivedFrom(rule, t) ==
    IF t.list = "ips"
    THEN DOMAIN rule \cap SelectorKeys = {"remote-addresses"}
         /\ rule["remote-addresses"] = <<TextOf(t)>>
    ELSE \/ DOMAIN rule \cap SelectorKeys = {"remote-hosts"}
            /\ rule["remote-hosts"] = <<TextOf(t)>>
         \/ DOMAIN rule \cap SelectorKeys = {"remote-domains"}
            /\ <<"*", ".">> \o rule["remote-domains"][1] = TextOf(t)

\* C6: the rules are in input order: by record, within a record URL targets
\* before IP targets, within a list in list order.
C6_InputOrderPreserved ==
    (pc = "loop" \/ ExtractionDone) =>
        /\ Len(origin) = Len(rules)
        /\ \A k \in 1..Len(rules) :
               /\ origin[k] \in Targets
               /\ DerivedFrom(rules[k], origin[k])
        /\ \A j, k \in 1..Len(rules) :
               (j < k) => ~Later(origin[k], origin[j])

C6_Witness ==
    /\ ExtractionDone
    /\ \E j, k \in 1..Len(rules) :
          /\ j < k
          /\ origin[j].service = 1 /\ origin[j].list = "ips"
          /\ origin[k].service = 2 /\ origin[k].list = "urls"

\* C9: main leaves its stages in the order fetch, extract, write, enters a
\* stage only after the previous one succeeded, and writes no file in a run
\* where fetch or extraction failed.
StageNames == <<"fetch", "extract", "write">>

C9_StagesInOrder ==
    /\ Len(stages) <= 3
    /\ \A i \in 1..Len(stages) :
           /\ stages[i][1] = StageNames[i]
           /\ i < Len(stages) => stages[i][2] = "ok"
    /\ pc \in {"extract", "loop"} => stages = <<<<"fetch", "ok">>>>
    /\ pc = "write" => stages = <<<<"fetch", "ok">>, <<"extract", "ok">>>>
    /\ file.state # "absent" => (Len(stages) = 3 /\ stages[2] = <<"extract", "ok">>)
    /\ (\E i \in 1..Len(stages) : i <= 2 /\ stages[i][2] = "failed") =>
           /\ file.state = "absent"
           /\ pc \in {"except", "done"}

C9_Witness ==
    /\ pc = "done"
    /\ stages = <<<<"fetch", "ok">>, <<"extract", "failed">>>>
    /\ file.state = "absent"

HasProtocol(rule, protocol, ports) ==
    /\ {"protocol", "ports"} \subseteq DOMAIN rule
    /\ rule["protocol"] = protocol
    /\ rule["ports"] = ports

\* p is spec without its leading and trailing whitespace
Trimmed(spec, p) ==
    /\ p # <<>> => (p[1] \notin Whitespace /\ p[Len(p)] \notin Whitespace)
    /\ \E i \in 1..Len(spec) + 1 : \E j \in i - 1..Len(spec) :
          /\ p = SubSeq(spec, i, j)
          /\ \A x \in 1..i - 1 : spec[x] \in Whitespace
          /\ \A x \in j + 1..Len(spec) : spec[x] \in Whitespace

BothDeclared(t) ==
    Declares(Records[t.service], "tcpPorts") /\ Declares(Records[t.service], "udpPorts")

NeitherDeclared(t) ==
    ~Declares(Records[t.service], "tcpPorts") /\ ~Declares(Records[t.service], "udpPorts")

\* C4 as stated: with port expansion, a record declaring TCP and UDP ports
\* yields exactly two rules for every target, a tcp one carrying the TCP port
\* spec string and a udp one carrying the UDP port spec string.
C4_Claimed ==
    (ExtractionDone /\ ADD_PORT_RULES) =>
        \A t \in Targets :
            BothDeclared(t) =>
                /\ Cardinality(RulesFrom(t)) = 2
                /\ \E j, k \in RulesFrom(t) :
                      /\ HasProtocol(rules[j], TCP, Records[t.service]["tcpPorts"].val)
                      /\ HasProtocol(rules[k], UDP, Records[t.service]["udpPorts"].val)

\* C4 amended: the two rules are emitted for every IP target and every URL
\* target that is not a rejected wildcard, and each ports field is the port
\* spec with its leading and trailing whitespace removed.
C4_TwoRulesPerAcceptedTarget ==
    (ExtractionDone /\ ADD_PORT_RULES) =>
        \A t \in Targets :
            BothDeclared(t) =>
                IF Rejected(t) THEN RulesFrom(t) = {}
                ELSE /\ Cardinality(RulesFrom(t)) = 2
                     /\ \E j, k \in RulesFrom(t) :
                           /\ "protocol" \in DOMAIN rules[j] /\ rules[j]["protocol"] = TCP
                           /\ "ports" \in DOMAIN rules[j]
                           /\ Trimmed(Records[t.service]["tcpPorts"].val, rules[j]["ports"])
                           /\ "protocol" \in DOMAIN rules[k] /\ rules[k]["protocol"] = UDP
                           /\ "ports" \in DOMAIN rules[k]
                           /\ Trimmed(Records[t.service]["udpPorts"].val, rules[k]["ports"])

C4_Witness ==
    /\ ExtractionDone /\ ADD_PORT_RULES
    /\ \E t, t2 \in Targets :
          /\ t.service = t2.service /\ t.list = "urls" /\ t2.list = "ips"
          /\ BothDeclared(t)
          /\ Cardinality(RulesFrom(t)) = 2 /\ Cardinality(RulesFrom(t2)) = 2
          /\ \E j \in RulesFrom(t2) :
                /\ "ports" \in DOMAIN rules[j]
                /\ rules[j]["ports"] # Records[t.service]["tcpPorts"].val
                /\ rules[j]["ports"] # Records[t.service]["udpPorts"].val

\* C5 as stated: a record declaring neither TCP nor UDP ports yields exactly
\* one rule for every target, without protocol and ports fields, whatever
\* the port expansion setting.
C5_Claimed ==
    ExtractionDone =>
        \A t \in Targets :
            NeitherDeclared(t) =>
                /\ Cardinality(RulesFrom(t)) = 1
                /\ \A k \in RulesFrom(t) : DOMAIN rules[k] \cap {"protocol", "ports"} = {}

\* C5 amended: the one rule is emitted for every IP target and every URL
\* target that is not a rejected wildcard.
C5_OneRulePerAcceptedTarget ==
    ExtractionDone =>
        \A t \in Targets :
            NeitherDeclared(t) =>
                IF Rejected(t) THEN RulesFrom(t) = {}
                ELSE /\ Cardinality(RulesFrom(t)) = 1
                     /\ \A k \in RulesFrom(t) :
                            DOMAIN rules[k] \cap {"protocol", "ports"} = {}

C5_Witness ==
    /\ ExtractionDone /\ ADD_PORT_RULES
    /\ \E t \in Targets :
          /\ NeitherDeclared(t)
          /\ "tcpPorts" \in DOMAIN Records[t.service]
          /\ Cardinality(RulesFrom(t)) = 1

NoteKeys ==
    <<"id", "serviceArea", "serviceAreaDisplayName", "tcpPorts", "udpPorts",
      "category", "expressRoute", "required", "notes">>

EmptyValue(v) == v.type = "str" /\ v.val = <<>>

\* the lines "key: value" of the given keys, joined by the separator
NoteLines(service, keys) ==
    Join(<<"\n">>, [i \in 1..Len(keys) |-> Label[keys[i]] \o PyStr(service[keys[i]])])

PresentNonEmptyKeys(service) ==
    LET Keep(k) == k \in DOMAIN service /\ ~EmptyValue(service[k])
    IN  SelectSeq(NoteKeys, Keep)

RenderedKeys(service) ==
    LET Keep(k) == /\ k \in DOMAIN service
                   /\ k \in {"tcpPorts", "udpPorts", "notes"} => Truthy(service[k])
    IN  SelectSeq(NoteKeys, Keep)

\* C7 as stated: the notes of every rule are the lines of the fields of its
\* record that are present and non-empty, in the fixed order.
C7_Claimed ==
    ExtractionDone =>
        \A k \in 1..Len(rules) :
            LET service == Records[origin[k].service]
            IN  rules[k]["notes"] = NoteLines(service, PresentNonEmptyKeys(service))

\* C7 amended: id, serviceArea, serviceAreaDisplayName, category,
\* expressRoute and required are rendered whenever present, even with an
\* empty value; tcpPorts, udpPorts and notes only when present and non-empty.
C7_NotesOfRecord ==
    ExtractionDone =>
        \A k \in 1..Len(rules) :
            LET service == Records[origin[k].service]
            IN  rules[k]["notes"] = NoteLines(service, RenderedKeys(service))

C7_Witness ==
    /\ ExtractionDone
    /\ \E k \in 1..Len(rules) :
          LET service == Records[origin[k].service]
          IN  /\ {"serviceArea", "notes", "required"} \subseteq DOMAIN service
              /\ "category" \notin DOMAIN service
              /\ EmptyValue(service["serviceArea"])
              /\ EmptyValue(service["notes"])
              /\ Len(RenderedKeys(service)) >= 3
              /\ rules[k]["notes"] = NoteLines(service, RenderedKeys(service))

\* C8 as stated: a fetched value that is not a list is read through its
\* "values" field, and without such a field it is an empty collection:
\* extraction succeeds with zero rules.
C8_Claimed ==
    (Len(stages) >= 2 /\ feed.type # "list") =>
        /\ stages[2] = <<"extract", "ok">>
        /\ IF feed.type = "dict" /\ "values" \in DOMAIN feed.val
           THEN Records = feed.val["values"]
           ELSE rules = <<>>

ErrorLines == {i \in 1..Len(log) : log[i].level = "ERROR"}

\* C10 as stated: when a stage fails the error is caught by main and exactly
\* one error-level message is logged over the run.
C10_Claimed ==
    (pc = "done" /\ \E i \in 1..Len(stages) : stages[i][2] = "failed") =>
        /\ raised = "None"
        /\ caught # "None"
        /\ Cardinality(ErrorLines) = 1

====
